---- MODULE Spec2Model ----
(***************************************************************************)
(* Model of fraud-service/app.py: the POST /analyze handler, the four     *)
(* rules of FraudDetector and the Redis keys they read and write.         *)
(*                                                                         *)
(* Time is counted in whole hours (the velocity window is one hour, the   *)
(* history TTL 24 hours, the average TTL 720 hours).  Every Redis call is  *)
(* one atomic step; the steps of concurrent requests interleave freely.   *)
(* Averages are kept exactly, in units of 1/Scale.                         *)
(***************************************************************************)
EXTENDS Integers, Sequences, FiniteSets, TLC

VARIABLES now, zsets, kv, proc, nreq, nticks, reply

vars == <<now, zsets, kv, proc, nreq, nticks, reply>>

----------------------------------------------------------------------------
(* Bounds of the exploration *)

MaxReq == 2
MaxTicks == 2

(* Program constants *)

velocity_threshold == 10
amount_threshold == 1000
VelocityHighCount == 15
VelocityPoints == 30
AmountPoints == 25
LocationPoints == 20
PatternPoints == 15
ScoreCap == 100
ActivityFactor == 2
ActivityCap == 50
RandomBound == 20
UserScoreCap == 100
AmountFactor == 5
AmountHighFactor == 10
RoundUnit == 100
OffHoursBefore == 6
OffHoursAfter == 22
WindowHours == 1
SecondsPerHour == 3600
HistoryTTL == 86400 \div SecondsPerHour
AvgTTL == (86400 * 30) \div SecondsPerHour
HoursPerDay == 24

Scale == 2 ^ MaxReq

----------------------------------------------------------------------------
(* Python values *)

PyNone == "<None>"

\* dict.get(key, default)
Get(d, k, default) == IF k \in DOMAIN d THEN d[k] ELSE default

\* truthiness of a JSON body (request.json): None and {} are falsy
EmptyBody == [k \in {} |-> 0]
BodyTruthy(d) == DOMAIN d # {}

\* truthiness of an optional string: None and "" are falsy
StrTruthy(s) == s # PyNone /\ s # ""

\* str() as used by the f-strings that build the keys
Str(s) == IF s = PyNone THEN "None" ELSE s

HistKey(user_id) == "user_transactions:" \o Str(user_id)
AvgKey(user_id) == "user_avg_amount:" \o Str(user_id)

\* json.dumps is injective on the bodies considered: the member is the body
json_dumps(d) == d

\* An optional value read from Redis: {} is None, {v} is the stored string.
\* With decode_responses=True a stored value is a non-empty string, which is
\* truthy whatever number it spells.
OptTruthy(opt) == opt # {}
OptVal(opt) == CHOOSE v \in opt : TRUE

----------------------------------------------------------------------------
(* Timestamps: ISO strings and what datetime.fromisoformat makes of them *)

TsNight == "2024-03-01T03:15:00"
TsDawn == "2024-03-01T06:00:00"
TsDay == "2024-03-01T14:00:00"
TsEvening == "2024-03-01T22:30:00"
TsLate == "2024-03-01T23:05:00"
TsBad == "yesterday"

IsoTable ==
    (TsNight :> [hour |-> 3, minute |-> 15]) @@
    (TsDawn :> [hour |-> 6, minute |-> 0]) @@
    (TsDay :> [hour |-> 14, minute |-> 0]) @@
    (TsEvening :> [hour |-> 22, minute |-> 30]) @@
    (TsLate :> [hour |-> 23, minute |-> 5])

IsoParses(ts) == ts \in DOMAIN IsoTable

\* the timestamp the pattern rule works with: the body's own, or now
PatternTime(d, t) ==
    IF "timestamp" \in DOMAIN d
    THEN IsoTable[d["timestamp"]]
    ELSE [hour |-> t % HoursPerDay, minute |-> 0]

----------------------------------------------------------------------------
(* Redis *)

\* GET key
RedisGet(store, key) == IF key \in DOMAIN store THEN {store[key].val} ELSE {}

\* SET key value EX ttl
RedisSet(store, key, value, t, ttl) ==
    [k \in DOMAIN store \cup {key} |->
        IF k = key THEN [val |-> value, exp |-> t + ttl] ELSE store[k]]

\* ZADD key {member: score}: a member already present only gets a new score
RedisZadd(store, key, member, score) ==
    LET old == IF key \in DOMAIN store THEN store[key]
               ELSE [members |-> {}, exp |-> {}]
        kept == {e \in old.members : e.m # member}
    IN  [k \in DOMAIN store \cup {key} |->
            IF k = key
            THEN [members |-> kept \cup {[m |-> member, s |-> score]},
                  exp |-> old.exp]
            ELSE store[k]]

\* EXPIRE key ttl: no effect on a key that does not exist
RedisExpire(store, key, t, ttl) ==
    [k \in DOMAIN store |->
        IF k = key THEN [store[k] EXCEPT !.exp = {t + ttl}] ELSE store[k]]

\* ZRANGEBYSCORE key lo hi (both bounds inclusive)
RedisZrangebyscore(store, key, lo, hi) ==
    IF key \in DOMAIN store
    THEN {e \in store[key].members : lo <= e.s /\ e.s <= hi}
    ELSE {}

\* ZCARD key
RedisZcard(store, key) ==
    IF key \in DOMAIN store THEN Cardinality(store[key].members) ELSE 0

\* keys whose time to live has run out at time t are gone
LiveZsets(store, t) ==
    LET live == {k \in DOMAIN store :
                    store[k].exp = {} \/ (\E x \in store[k].exp : x > t)}
    IN  [k \in live |-> store[k]]

LiveKv(store, t) ==
    LET live == {k \in DOMAIN store : store[k].exp > t}
    IN  [k \in live |-> store[k]]

----------------------------------------------------------------------------
(* The rules of FraudDetector *)

NoAlert == <<>>

Alert(type, severity, pattern_type, count) ==
    <<[type |-> type, severity |-> severity,
       pattern_type |-> pattern_type, transaction_count |-> count]>>

\* check_velocity with the threshold test written >= instead of >
check_velocity_ge(d, store, t) ==
    LET user_id == Get(d, "fromUser", PyNone)
        recent == RedisZrangebyscore(store, HistKey(user_id),
                                     t - WindowHours, t)
        n == Cardinality(recent)
    IN  IF n >= velocity_threshold
        THEN Alert("velocity",
                   IF n > VelocityHighCount THEN "high" ELSE "medium", "", n)
        ELSE NoAlert

\* check_velocity: the alert (a sequence of length 0 or 1)
check_velocity(d, store, t) ==
    LET user_id == Get(d, "fromUser", PyNone)
        recent == RedisZrangebyscore(store, HistKey(user_id),
                                     t - WindowHours, t)
        n == Cardinality(recent)
    IN  IF n > velocity_threshold
        THEN Alert("velocity",
                   IF n > VelocityHighCount THEN "high" ELSE "medium", "", n)
        ELSE NoAlert

\* check_amount_anomaly; averages are in units of 1/Scale
check_amount_anomaly(d, store) ==
    LET amount == Get(d, "amount", 0)
        user_id == Get(d, "fromUser", PyNone)
        historical_avg == RedisGet(store, AvgKey(user_id))
    IN  IF OptTruthy(historical_avg)
        THEN LET avg_amount == OptVal(historical_avg)
             IN  IF amount * Scale > avg_amount * AmountFactor
                 THEN Alert("amount",
                            IF amount * Scale > avg_amount * AmountHighFactor
                            THEN "high" ELSE "medium", "", 0)
                 ELSE NoAlert
        ELSE IF amount > amount_threshold
             THEN Alert("amount", "medium", "", 0)
             ELSE NoAlert

\* check_location_anomaly without the test that a location is given
check_location_anomaly_any(d, draw) ==
    IF draw
    THEN Alert("location", "medium", "", 0)
    ELSE NoAlert

\* check_location_anomaly; draw is np.random.random() > 0.8
check_location_anomaly(d, draw) ==
    LET location == Get(d, "location", PyNone)
    IN  IF StrTruthy(location) /\ draw
        THEN Alert("location", "medium", "", 0)
        ELSE NoAlert

\* check_pattern_anomaly with the evening test written >= instead of >
check_pattern_anomaly_ge(d, t) ==
    LET amount == Get(d, "amount", 0)
        timestamp == PatternTime(d, t)
    IN  IF amount % RoundUnit = 0 /\ amount > RoundUnit
        THEN Alert("pattern", "low", "round_amount", 0)
        ELSE IF timestamp.hour < OffHoursBefore
                \/ timestamp.hour >= OffHoursAfter
             THEN Alert("pattern", "low", "unusual_time", 0)
             ELSE NoAlert

\* check_pattern_anomaly, for a timestamp that parses
check_pattern_anomaly(d, t) ==
    LET amount == Get(d, "amount", 0)
        timestamp == PatternTime(d, t)
    IN  IF amount % RoundUnit = 0 /\ amount > RoundUnit
        THEN Alert("pattern", "low", "round_amount", 0)
        ELSE IF timestamp.hour < OffHoursBefore
                \/ timestamp.hour > OffHoursAfter
             THEN Alert("pattern", "low", "unusual_time", 0)
             ELSE NoAlert

\* NewAvg with the stored average tested as a number, so that 0 is falsy
NewAvgZeroFalsy(current_avg, amount) ==
    IF OptTruthy(current_avg) /\ OptVal(current_avg) # 0
    THEN (OptVal(current_avg) + amount * Scale) \div 2
    ELSE amount * Scale

\* the running average written by the handler
NewAvg(current_avg, amount) ==
    IF OptTruthy(current_avg)
    THEN (OptVal(current_avg) + amount * Scale) \div 2
    ELSE amount * Scale

Min(a, b) == IF a < b THEN a ELSE b

----------------------------------------------------------------------------
(* Requests *)

Procs == {"w1", "w2"}

\* the workers are interchangeable: a request goes to the first free one
Before == [p \in Procs |-> IF p = "w2" THEN {"w1"} ELSE {}]

NoResponse == [status |-> 0]
BadRequest == [status |-> 400, error |-> "No transaction data provided"]
ServerError == [status |-> 500, error |-> "Internal server error"]

IdleProc ==
    [pc |-> "idle", req |-> EmptyBody, current_avg |-> {},
     alerts |-> <<>>, risk_score |-> 0, resp |-> NoResponse,
     startAvg |-> {}, startCount |-> 0, overlapped |-> FALSE,
     wroteHist |-> FALSE, wroteAvg |-> FALSE, raised |-> FALSE]

InFlight(q) == proc[q].pc \notin {"idle", "done"}

StoreCallPcs == {"zadd", "expire", "get_avg", "set_avg",
                 "check_velocity", "check_amount"}

UserOf(p) == Get(proc[p].req, "fromUser", PyNone)

\* q is handling a request that writes the keys of user_id
WritesFor(q, user_id) ==
    InFlight(q) /\ StrTruthy(user_id) /\ UserOf(q) = user_id

Step(p, r) == proc' = [proc EXCEPT ![p] = r]

\* Receive with the recording block left out: every body goes to scoring
ReceiveNoRecord(p, body, maxInFlight) ==
    /\ proc[p].pc \in {"idle", "done"}
    /\ nreq < MaxReq
    /\ Cardinality({q \in Procs : InFlight(q)}) < maxInFlight
    /\ nreq' = nreq + 1
    /\ LET r == [IdleProc EXCEPT !.req = body]
       IN  Step(p, IF ~BodyTruthy(body)
                   THEN [r EXCEPT !.pc = "done", !.resp = BadRequest]
                   ELSE [r EXCEPT !.pc = "check_velocity"])
    /\ UNCHANGED <<now, zsets, kv, nticks, reply>>

\* lines 176-183: the body arrives at a worker that is free (its previous
\* response, if any, has been sent); an empty body is answered 400
Receive(p, body, maxInFlight) ==
    /\ proc[p].pc \in {"idle", "done"}
    /\ \A q \in Procs : q \in Before[p] => InFlight(q)
    /\ nreq < MaxReq
    /\ Cardinality({q \in Procs : InFlight(q)}) < maxInFlight
    /\ nreq' = nreq + 1
    /\ LET user_id == Get(body, "fromUser", PyNone)
           r == [IdleProc EXCEPT
                    !.req = body,
                    !.startAvg = RedisGet(kv, AvgKey(user_id)),
                    !.startCount =
                        Cardinality(RedisZrangebyscore(
                            zsets, HistKey(user_id), now - WindowHours, now)),
                    !.overlapped = \E q \in Procs : WritesFor(q, user_id)]
           mine == IF ~BodyTruthy(body)
                   THEN [r EXCEPT !.pc = "done", !.resp = BadRequest]
                   ELSE IF StrTruthy(user_id)
                        THEN [r EXCEPT !.pc = "zadd"]
                        ELSE [r EXCEPT !.pc = "check_velocity"]
       IN  proc' = [q \in Procs |->
                      IF q = p THEN mine
                      ELSE IF WritesFor(q, user_id)
                           THEN [proc[q] EXCEPT !.overlapped = TRUE]
                           ELSE proc[q]]
    /\ UNCHANGED <<now, zsets, kv, nticks, reply>>

\* Zadd keyed by the receiving user of the transaction
ZaddToUser(p) ==
    /\ proc[p].pc = "zadd"
    /\ zsets' = RedisZadd(zsets, HistKey(Get(proc[p].req, "toUser", PyNone)),
                          json_dumps(proc[p].req), now)
    /\ Step(p, [proc[p] EXCEPT !.pc = "expire", !.wroteHist = TRUE])
    /\ UNCHANGED <<now, kv, nreq, nticks, reply>>

\* Zadd with the history write left to a later time
ZaddDeferred(p) ==
    /\ proc[p].pc = "zadd"
    /\ zsets' = zsets
    /\ Step(p, [proc[p] EXCEPT !.pc = "expire", !.wroteHist = TRUE])
    /\ UNCHANGED <<now, kv, nreq, nticks, reply>>

\* lines 184-188
Zadd(p) ==
    /\ proc[p].pc = "zadd"
    /\ zsets' = RedisZadd(zsets, HistKey(UserOf(p)),
                          json_dumps(proc[p].req), now)
    /\ Step(p, [proc[p] EXCEPT !.pc = "expire", !.wroteHist = TRUE])
    /\ UNCHANGED <<now, kv, nreq, nticks, reply>>

\* line 190
Expire(p) ==
    /\ proc[p].pc = "expire"
    /\ zsets' = RedisExpire(zsets, HistKey(UserOf(p)), now, HistoryTTL)
    /\ Step(p, [proc[p] EXCEPT !.pc = "get_avg"])
    /\ UNCHANGED <<now, kv, nreq, nticks, reply>>

\* lines 193-195
GetAvg(p) ==
    /\ proc[p].pc = "get_avg"
    /\ Step(p, [proc[p] EXCEPT !.pc = "set_avg",
                  !.current_avg = RedisGet(kv, AvgKey(UserOf(p)))])
    /\ UNCHANGED <<now, zsets, kv, nreq, nticks, reply>>

\* SetAvg as an atomic read-modify-write on the stored value
SetAvgAtomic(p) ==
    /\ proc[p].pc = "set_avg"
    /\ kv' = RedisSet(kv, AvgKey(UserOf(p)),
                      NewAvg(RedisGet(kv, AvgKey(UserOf(p))),
                             Get(proc[p].req, "amount", 0)),
                      now, AvgTTL)
    /\ Step(p, [proc[p] EXCEPT !.pc = "check_velocity", !.wroteAvg = TRUE])
    /\ UNCHANGED <<now, zsets, nreq, nticks, reply>>

\* lines 196-200
SetAvg(p) ==
    /\ proc[p].pc = "set_avg"
    /\ kv' = RedisSet(kv, AvgKey(UserOf(p)),
                      NewAvg(proc[p].current_avg, Get(proc[p].req, "amount", 0)),
                      now, AvgTTL)
    /\ Step(p, [proc[p] EXCEPT !.pc = "check_velocity", !.wroteAvg = TRUE])
    /\ UNCHANGED <<now, zsets, nreq, nticks, reply>>

\* CheckVelocity with the points added outside the if
CheckVelocityAlwaysAdds(p) ==
    /\ proc[p].pc = "check_velocity"
    /\ LET a == check_velocity(proc[p].req, zsets, now)
       IN  Step(p, [proc[p] EXCEPT
                      !.pc = "check_amount",
                      !.alerts = @ \o a,
                      !.risk_score = @ + VelocityPoints])
    /\ UNCHANGED <<now, zsets, kv, nreq, nticks, reply>>

\* lines 29-32
CheckVelocity(p) ==
    /\ proc[p].pc = "check_velocity"
    /\ LET a == check_velocity(proc[p].req, zsets, now)
       IN  Step(p, [proc[p] EXCEPT
                      !.pc = "check_amount",
                      !.alerts = @ \o a,
                      !.risk_score = IF a # NoAlert THEN @ + VelocityPoints ELSE @])
    /\ UNCHANGED <<now, zsets, kv, nreq, nticks, reply>>

\* CheckAmount comparing with the average stored when the request arrived
CheckAmountPreAverage(p) ==
    /\ proc[p].pc = "check_amount"
    /\ LET key == AvgKey(UserOf(p))
           before == IF proc[p].startAvg = {}
                     THEN [k \in DOMAIN kv \ {key} |-> kv[k]]
                     ELSE RedisSet(kv, key, OptVal(proc[p].startAvg), now, AvgTTL)
           a == check_amount_anomaly(proc[p].req, before)
       IN  Step(p, [proc[p] EXCEPT
                      !.pc = "check_location",
                      !.alerts = @ \o a,
                      !.risk_score = IF a # NoAlert THEN @ + AmountPoints ELSE @])
    /\ UNCHANGED <<now, zsets, kv, nreq, nticks, reply>>

\* lines 35-38
CheckAmount(p) ==
    /\ proc[p].pc = "check_amount"
    /\ LET a == check_amount_anomaly(proc[p].req, kv)
       IN  Step(p, [proc[p] EXCEPT
                      !.pc = "check_location",
                      !.alerts = @ \o a,
                      !.risk_score = IF a # NoAlert THEN @ + AmountPoints ELSE @])
    /\ UNCHANGED <<now, zsets, kv, nreq, nticks, reply>>

\* FinishAnalysis with the pattern alert appended before the location alert
FinishAnalysisPatternFirst(p, draw) ==
    /\ proc[p].pc = "check_location"
    /\ IF "timestamp" \in DOMAIN proc[p].req
          /\ ~IsoParses(proc[p].req["timestamp"])
       THEN Step(p, [proc[p] EXCEPT !.pc = "done", !.resp = ServerError,
                                    !.raised = TRUE])
       ELSE LET l == check_location_anomaly(proc[p].req, draw)
                a == check_pattern_anomaly(proc[p].req, now)
                alerts == proc[p].alerts \o a \o l
                risk_score ==
                    proc[p].risk_score
                    + (IF l # NoAlert THEN LocationPoints ELSE 0)
                    + (IF a # NoAlert THEN PatternPoints ELSE 0)
            IN  Step(p, [proc[p] EXCEPT
                           !.pc = "done",
                           !.alerts = alerts,
                           !.risk_score = risk_score,
                           !.resp = [status |-> 200,
                                     risk_score |-> Min(risk_score, ScoreCap),
                                     alerts |-> alerts,
                                     timestamp |-> now]])
    /\ UNCHANGED <<now, zsets, kv, nreq, nticks, reply>>

\* lines 41-56 and 205: the location and pattern rules and the response;
\* a timestamp that does not parse raises (line 139)
FinishAnalysis(p, draw) ==
    /\ proc[p].pc = "check_location"
    /\ IF "timestamp" \in DOMAIN proc[p].req
          /\ ~IsoParses(proc[p].req["timestamp"])
       THEN Step(p, [proc[p] EXCEPT !.pc = "done", !.resp = ServerError,
                                    !.raised = TRUE])
       ELSE LET l == check_location_anomaly(proc[p].req, draw)
                a == check_pattern_anomaly(proc[p].req, now)
                alerts == proc[p].alerts \o l \o a
                risk_score ==
                    proc[p].risk_score
                    + (IF l # NoAlert THEN LocationPoints ELSE 0)
                    + (IF a # NoAlert THEN PatternPoints ELSE 0)
            IN  Step(p, [proc[p] EXCEPT
                           !.pc = "done",
                           !.alerts = alerts,
                           !.risk_score = risk_score,
                           !.resp = [status |-> 200,
                                     risk_score |-> Min(risk_score, ScoreCap),
                                     alerts |-> alerts,
                                     timestamp |-> now]])
    /\ UNCHANGED <<now, zsets, kv, nreq, nticks, reply>>

\* StoreFail undoing the history write of the request
StoreFailRollsBack(p) ==
    /\ proc[p].pc \in StoreCallPcs
    /\ Step(p, [proc[p] EXCEPT
                  !.pc = "done", !.resp = ServerError, !.raised = TRUE])
    /\ zsets' = [k \in DOMAIN zsets |->
                   IF k = HistKey(UserOf(p)) /\ proc[p].wroteHist
                   THEN [zsets[k] EXCEPT
                           !.members = {e \in @ : e.m # proc[p].req}]
                   ELSE zsets[k]]
    /\ UNCHANGED <<now, kv, nreq, nticks, reply>>

\* StoreFail answering with the exception text
StoreFailLeaks(p) ==
    /\ proc[p].pc \in StoreCallPcs
    /\ Step(p, [proc[p] EXCEPT
                  !.pc = "done",
                  !.resp = [status |-> 500, error |-> "ConnectionError"],
                  !.raised = TRUE])
    /\ UNCHANGED <<now, zsets, kv, nreq, nticks, reply>>

\* lines 207-209: a Redis call raises
StoreFail(p) ==
    /\ proc[p].pc \in StoreCallPcs
    /\ Step(p, [proc[p] EXCEPT !.pc = "done", !.resp = ServerError,
                               !.raised = TRUE])
    /\ UNCHANGED <<now, zsets, kv, nreq, nticks, reply>>

\* d hours pass between requests (a request takes far less than the hour the
\* clock counts in); Redis drops the keys whose time to live has run out
Tick(d) ==
    /\ nticks < MaxTicks
    /\ \A q \in Procs : ~InFlight(q)
    /\ nticks' = nticks + 1
    /\ now' = now + d
    /\ zsets' = LiveZsets(zsets, now + d)
    /\ kv' = LiveKv(kv, now + d)
    /\ UNCHANGED <<proc, nreq, reply>>

----------------------------------------------------------------------------
(* The GET endpoints; reply is the last response one of them gave *)

NoReply == [endpoint |-> "none"]

HealthReply ==
    [endpoint |-> "health", status |-> 200,
     body |-> [status |-> "OK", service |-> "fraud-detection"]]

\* lines 169-171
HealthCheck ==
    /\ reply' = HealthReply
    /\ UNCHANGED <<now, zsets, kv, proc, nreq, nticks>>

\* GetUserRiskScore without the cap on the activity score
GetUserRiskScoreUncapped(user_id, r) ==
    /\ LET recent_count == RedisZcard(zsets, HistKey(user_id))
           base_score == recent_count * ActivityFactor
           risk_score == base_score + r
       IN  reply' = [endpoint |-> "risk-score", status |-> 200,
                     user_id |-> user_id,
                     risk_score |-> Min(risk_score, UserScoreCap),
                     transaction_frequency |-> recent_count,
                     base_score |-> base_score]
    /\ UNCHANGED <<now, zsets, kv, proc, nreq, nticks>>

\* lines 211-230; r is np.random.randint(0, 20)
GetUserRiskScore(user_id, r) ==
    /\ LET recent_count == RedisZcard(zsets, HistKey(user_id))
           base_score == Min(recent_count * ActivityFactor, ActivityCap)
           risk_score == base_score + r
       IN  reply' = [endpoint |-> "risk-score", status |-> 200,
                     user_id |-> user_id,
                     risk_score |-> Min(risk_score, UserScoreCap),
                     transaction_frequency |-> recent_count,
                     base_score |-> base_score]
    /\ UNCHANGED <<now, zsets, kv, proc, nreq, nticks>>

\* lines 232-234: zcard raises
GetUserRiskScoreFail(user_id) ==
    /\ reply' = [endpoint |-> "risk-score", status |-> 500,
                 error |-> "Internal server error"]
    /\ UNCHANGED <<now, zsets, kv, proc, nreq, nticks>>

----------------------------------------------------------------------------
(* The service under concurrent load, starting with an empty Redis *)

StartTime == 5
TickSteps == {1, HistoryTTL - 1, AvgTTL}

Bodies ==
    {EmptyBody}
    \cup {[amount |-> 200]}
    \cup {[fromUser |-> "alice", amount |-> a] : a \in {0, 200}}

Init ==
    /\ now = StartTime
    /\ zsets = [k \in {} |-> 0]
    /\ kv = [k \in {} |-> 0]
    /\ proc = [p \in Procs |-> IdleProc]
    /\ nreq = 0
    /\ nticks = 0
    /\ reply = NoReply

Next ==
    \/ \E p \in Procs, body \in Bodies : Receive(p, body, 2)
    \/ \E p \in Procs : Zadd(p)
    \/ \E p \in Procs : Expire(p)
    \/ \E p \in Procs : GetAvg(p)
    \/ \E p \in Procs : SetAvg(p)
    \/ \E p \in Procs : CheckVelocity(p)
    \/ \E p \in Procs : CheckAmount(p)
    \/ \E p \in Procs, draw \in BOOLEAN : FinishAnalysis(p, draw)
    \/ \E p \in Procs : StoreFail(p)
    \/ \E d \in TickSteps : Tick(d)

Spec == Init /\ [][Next]_vars

----------------------------------------------------------------------------
(* One request against a store that earlier requests have filled: the      *)
(* rules on a wide range of bodies.  The store holds the entries of k      *)
(* requests of one user made within the last hour and of one made two      *)
(* hours ago, all of the same amount, so that this amount is the average.  *)
(* The user is alice or a user named "None", whose keys are the ones a     *)
(* request without fromUser reads.                                          *)

Absent == "<absent>"
NoAmount == 0 - 1

Field(k, v, absent) == IF v = absent THEN EmptyBody ELSE k :> v

Body(u, a, l, ts) ==
    Field("fromUser", u, Absent) @@ Field("amount", a, NoAmount)
    @@ Field("location", l, Absent) @@ Field("timestamp", ts, Absent)

PreloadMember(u, i, a) == [fromUser |-> u, amount |-> a, id |-> i]

PreloadCounts ==
    {0, velocity_threshold - 1, velocity_threshold, velocity_threshold + 1,
     VelocityHighCount - 1, VelocityHighCount, VelocityHighCount + 1}

RuleAmounts ==
    {NoAmount, 0, 100, 101, 200, 300, 301, 500, 501, 600, 1000, 1001, 1200, 1500}

RuleBodies ==
    {EmptyBody, PreloadMember("alice", 1, 100)}
    \cup {Body(u, a, Absent, Absent) :
            u \in {Absent, "", "alice", "bob", "None"}, a \in RuleAmounts}
    \cup {Body(u, a, l, ts) :
            u \in {Absent, "alice"},
            a \in {100, 200, 300, 301},
            l \in {Absent, "", "Lagos"},
            ts \in {Absent, TsNight, TsDawn, TsDay, TsEvening, TsLate, TsBad}}

InitRules ==
    /\ now = StartTime
    /\ \E u \in {"alice", "None"}, k \in PreloadCounts, a \in {0, 100} :
         LET members ==
                 {[m |-> PreloadMember(u, i, a), s |-> now - (i % 2)] : i \in 1..k}
                 \cup {[m |-> PreloadMember(u, k + 1, a), s |-> now - 2]}
             last == IF k > 0 THEN now ELSE now - 2
         IN  /\ zsets = (HistKey(u) :>
                           [members |-> members, exp |-> {last + HistoryTTL}])
             /\ kv = (AvgKey(u) :>
                           [val |-> a * Scale, exp |-> last + AvgTTL])
    /\ proc = [p \in Procs |-> IdleProc]
    /\ nreq = MaxReq - 1
    /\ nticks = 0
    /\ reply = NoReply

RuleProcs == {"w1"}

NextRules ==
    \/ \E p \in RuleProcs, body \in RuleBodies : Receive(p, body, 1)
    \/ \E p \in RuleProcs : Zadd(p)
    \/ \E p \in RuleProcs : Expire(p)
    \/ \E p \in RuleProcs : GetAvg(p)
    \/ \E p \in RuleProcs : SetAvg(p)
    \/ \E p \in RuleProcs : CheckVelocity(p)
    \/ \E p \in RuleProcs : CheckAmount(p)
    \/ \E p \in RuleProcs, draw \in BOOLEAN : FinishAnalysis(p, draw)
    \/ \E p \in RuleProcs : StoreFail(p)

SpecRules == InitRules /\ [][NextRules]_vars

----------------------------------------------------------------------------
(* The GET endpoints beside one POST request, against a store that earlier *)
(* requests of one user have filled with up to a few more entries than the *)
(* activity score saturates at.                                            *)

LookupCounts ==
    {0, ActivityCap \div ActivityFactor - 2, ActivityCap \div ActivityFactor - 1,
     ActivityCap \div ActivityFactor}

LookupUsers == {"alice", "bob", "None"}

InitLookup ==
    /\ now = StartTime
    /\ \E u \in {"alice", "None"}, k \in LookupCounts, a \in {0, 100} :
         LET members ==
                 {[m |-> PreloadMember(u, i, a), s |-> now - (i % 2)] : i \in 1..k}
                 \cup {[m |-> PreloadMember(u, k + 1, a), s |-> now - 2]}
             last == IF k > 0 THEN now ELSE now - 2
         IN  /\ zsets = (HistKey(u) :>
                           [members |-> members, exp |-> {last + HistoryTTL}])
             /\ kv = (AvgKey(u) :>
                           [val |-> a * Scale, exp |-> last + AvgTTL])
    /\ proc = [p \in Procs |-> IdleProc]
    /\ nreq = MaxReq - 1
    /\ nticks = 0
    /\ reply = NoReply

NextLookup ==
    \/ \E p \in RuleProcs, body \in Bodies : Receive(p, body, 1)
    \/ \E p \in RuleProcs : Zadd(p)
    \/ \E p \in RuleProcs : Expire(p)
    \/ \E p \in RuleProcs : GetAvg(p)
    \/ \E p \in RuleProcs : SetAvg(p)
    \/ \E p \in RuleProcs : CheckVelocity(p)
    \/ \E p \in RuleProcs : CheckAmount(p)
    \/ \E p \in RuleProcs, draw \in BOOLEAN : FinishAnalysis(p, draw)
    \/ \E p \in RuleProcs : StoreFail(p)
    \/ HealthCheck
    \/ \E u \in LookupUsers, r \in 0..(RandomBound - 1) : GetUserRiskScore(u, r)
    \/ \E u \in LookupUsers : GetUserRiskScoreFail(u)

SpecLookup == InitLookup /\ [][NextLookup]_vars

----------------------------------------------------------------------------
(* Properties *)

Done200(p) == proc[p].pc = "done" /\ proc[p].resp.status = 200

\* the alerts of one type in the response of p
AlertsOf(p, type) ==
    {proc[p].resp.alerts[i] : i \in
        {j \in DOMAIN proc[p].resp.alerts : proc[p].resp.alerts[j].type = type}}

AmountOf(p) == Get(proc[p].req, "amount", 0)

C2_Velocity ==
    \A p \in Procs : Done200(p) =>
        LET key == HistKey(UserOf(p))
            counted == IF key \in DOMAIN zsets
                       THEN {e \in zsets[key].members :
                                now - 1 <= e.s /\ e.s <= now}
                       ELSE {}
            n == Cardinality(counted)
            va == AlertsOf(p, "velocity")
            own == StrTruthy(UserOf(p))
        IN  /\ va # {} <=> n > 10
            /\ \A a \in va :
                 /\ a.severity = (IF n > 15 THEN "high" ELSE "medium")
                 /\ a.transaction_count = n
            /\ own => [m |-> proc[p].req, s |-> now] \in counted
            /\ own /\ proc[p].startCount = 11 =>
                 \E a \in va : a.severity = "medium"
            /\ own /\ proc[p].startCount = 16 =>
                 \E a \in va : a.severity = "high"

C2_Witness ==
    \E p \in Procs :
        /\ Done200(p)
        /\ proc[p].startCount = 11
        /\ \E a \in AlertsOf(p, "velocity") :
             a.severity = "medium" /\ a.transaction_count = 12

\* C3: for a user whose stored average before the request is a, the amount
\* rule alerts iff amount > 5*a, high iff amount > 10*a, medium otherwise.
C3_AmountAgainstPreAverage ==
    \A p \in Procs : Done200(p) /\ proc[p].startAvg # {} =>
        LET a == OptVal(proc[p].startAvg)
            amount == AmountOf(p) * Scale
            aa == AlertsOf(p, "amount")
        IN  /\ aa # {} <=> amount > 5 * a
            /\ \A x \in aa :
                 x.severity = (IF amount > 10 * a THEN "high" ELSE "medium")

\* C4: for a user with no stored average when the request arrives, the
\* result holds a medium amount alert iff amount > 1000.
C4_AmountFallback ==
    \A p \in Procs : Done200(p) /\ proc[p].startAvg = {} =>
        LET aa == AlertsOf(p, "amount")
        IN  /\ aa # {} <=> AmountOf(p) > 1000
            /\ \A x \in aa : x.severity = "medium"

\* C5: a request that overlaps no other request of its user leaves, once it
\* has written the average, the request's amount if no average was stored
\* before it and (previous + amount) / 2 otherwise; a stored 0 is a previous
\* average like any other.
C5_RunningAverage ==
    \A p \in Procs :
        InFlight(p) /\ proc[p].wroteAvg /\ ~proc[p].overlapped =>
            LET key == AvgKey(UserOf(p))
                amount == AmountOf(p) * Scale
            IN  /\ key \in DOMAIN kv
                /\ IF proc[p].startAvg = {}
                   THEN kv[key].val = amount
                   ELSE 2 * kv[key].val = OptVal(proc[p].startAvg) + amount

C5_Witness ==
    \E p \in Procs :
        /\ InFlight(p) /\ proc[p].wroteAvg /\ ~proc[p].overlapped
        /\ proc[p].startAvg = {0}
        /\ AmountOf(p) = 200
        /\ kv[AvgKey(UserOf(p))].val = 100 * Scale

\* C6: the average update is a get followed by a set with nothing between
\* them held: when two requests of one user have read the same previous
\* average and both have written, the stored average is what one of them
\* computed from that read and its own amount alone.
C6_LastWriterWins ==
    \A p, q \in Procs :
        (/\ p # q
         /\ proc[p].wroteAvg /\ proc[q].wroteAvg
         /\ UserOf(p) = UserOf(q)
         /\ proc[p].current_avg = proc[q].current_avg
         /\ AvgKey(UserOf(p)) \in DOMAIN kv) =>
            LET F(cur, a) == IF cur = {} THEN a * Scale
                             ELSE (OptVal(cur) + a * Scale) \div 2
                cur == proc[p].current_avg
            IN  kv[AvgKey(UserOf(p))].val
                    \in {F(cur, AmountOf(p)), F(cur, AmountOf(q))}

\* the lost update: the stored average is the result of no serial order
C6_Witness ==
    \E p, q \in Procs :
        /\ p # q
        /\ proc[p].wroteAvg /\ proc[q].wroteAvg
        /\ UserOf(p) = UserOf(q)
        /\ proc[p].current_avg = proc[q].current_avg
        /\ AvgKey(UserOf(p)) \in DOMAIN kv
        /\ LET F(cur, a) == IF cur = {} THEN a * Scale
                            ELSE (OptVal(cur) + a * Scale) \div 2
               cur == proc[p].current_avg
               pq == F({F(cur, AmountOf(p))}, AmountOf(q))
               qp == F({F(cur, AmountOf(q))}, AmountOf(p))
           IN  kv[AvgKey(UserOf(p))].val \notin {pq, qp}

\* C7 as stated: every request answered 200 has recorded its transaction and
\* updated the average, whatever its fromUser.
C7_RecordedWhateverUser ==
    \A p \in Procs : Done200(p) => proc[p].wroteHist /\ proc[p].wroteAvg

\* C7: a request with a non-empty fromUser has recorded its transaction and
\* written the average before its scoring runs, hence before it is
\* answered 200; a request without one is answered 200 having written
\* nothing.
C7_RecordedBeforeScored ==
    \A p \in Procs :
        IF ~StrTruthy(UserOf(p))
        THEN Done200(p) => ~proc[p].wroteHist /\ ~proc[p].wroteAvg
        ELSE
            /\ Done200(p) => proc[p].wroteHist /\ proc[p].wroteAvg
            /\ proc[p].pc \in {"check_velocity", "check_amount", "check_location"} =>
                 /\ proc[p].wroteHist /\ proc[p].wroteAvg
                 /\ HistKey(UserOf(p)) \in DOMAIN zsets
                 /\ \E e \in zsets[HistKey(UserOf(p))].members : e.m = proc[p].req
                 /\ AvgKey(UserOf(p)) \in DOMAIN kv

C7_Witness ==
    \E p \in Procs :
        /\ Done200(p)
        /\ StrTruthy(UserOf(p))
        /\ proc[p].wroteHist /\ proc[p].wroteAvg

\* C8: every entry counted in a user's history (a collection carrying the
\* 24-hour TTL) was recorded at most 24 hours earlier.
C8_EntriesWithinTTL ==
    \A k \in DOMAIN zsets :
        zsets[k].exp # {} => \A e \in zsets[k].members : now - e.s <= 24

C10_PatternAfter2200 ==
    \A p \in Procs : Done200(p) /\ "timestamp" \in DOMAIN proc[p].req =>
        LET t == IsoTable[proc[p].req["timestamp"]]
            amount == AmountOf(p)
            pa == AlertsOf(p, "pattern")
        IN  IF amount % 100 = 0 /\ amount > 100
            THEN pa = {[type |-> "pattern", severity |-> "low",
                        pattern_type |-> "round_amount", transaction_count |-> 0]}
            ELSE IF t.hour < 6 \/ t.hour > 22 \/ (t.hour = 22 /\ t.minute > 0)
                 THEN pa = {[type |-> "pattern", severity |-> "low",
                             pattern_type |-> "unusual_time", transaction_count |-> 0]}
                 ELSE pa = {}

\* C10: round_amount (low) if the amount is a multiple of 100 above 100, the
\* hour not being looked at; otherwise unusual_time (low) if the hour of the
\* transaction's timestamp (of the current time when it has none) is below 6
\* or above 22; otherwise no pattern alert.
C10_PatternRule ==
    \A p \in Procs : Done200(p) =>
        LET hour == IF "timestamp" \in DOMAIN proc[p].req
                    THEN IsoTable[proc[p].req["timestamp"]].hour
                    ELSE now % 24
            amount == AmountOf(p)
            pa == AlertsOf(p, "pattern")
        IN  IF amount % 100 = 0 /\ amount > 100
            THEN pa = {[type |-> "pattern", severity |-> "low",
                        pattern_type |-> "round_amount", transaction_count |-> 0]}
            ELSE IF hour < 6 \/ hour > 22
                 THEN pa = {[type |-> "pattern", severity |-> "low",
                             pattern_type |-> "unusual_time", transaction_count |-> 0]}
                 ELSE pa = {}

C10_Witness ==
    \E p \in Procs :
        /\ Done200(p)
        /\ AmountOf(p) = 301
        /\ Get(proc[p].req, "timestamp", "") = TsNight
        /\ \E a \in AlertsOf(p, "pattern") : a.pattern_type = "unusual_time"

\* A step in which GET /risk-score/<user_id> answers 200
RiskScoreAnswered ==
    /\ reply' # reply
    /\ reply'.endpoint = "risk-score"
    /\ reply'.status = 200

\* C11: GET /risk-score/<user_id> answers with transaction_frequency = n, the
\* number of entries stored for the user when it is called, base_score =
\* min(2 * n, 50) and risk_score = min(base_score + r, 100) for an integer r
\* with 0 <= r < 20; so base_score <= risk_score <= base_score + 19 <= 100,
\* and a user without entries gets base_score 0 and a risk_score below 20.
C11_UserRiskScore ==
    [][RiskScoreAnswered =>
        LET n == Cardinality(IF HistKey(reply'.user_id) \in DOMAIN zsets
                             THEN zsets[HistKey(reply'.user_id)].members
                             ELSE {})
            base == reply'.base_score
            risk == reply'.risk_score
        IN  /\ reply'.transaction_frequency = n
            /\ base = (IF 2 * n < 50 THEN 2 * n ELSE 50)
            /\ \E r \in 0..19 :
                 risk = (IF base + r < 100 THEN base + r ELSE 100)
            /\ base <= risk /\ risk <= base + 19 /\ base + 19 <= 100
            /\ n = 0 => base = 0 /\ risk \in 0..19]_vars

C11_Witness ==
    /\ reply.endpoint = "risk-score"
    /\ reply.status = 200
    /\ reply.transaction_frequency = 26
    /\ reply.base_score = 50
    /\ reply.risk_score = 69

\* the place of a rule in the order in which analyze_transaction runs them
RuleOrder ==
    [t \in {"velocity", "amount", "location", "pattern"} |->
        CASE t = "velocity" -> 1
          [] t = "amount" -> 2
          [] t = "location" -> 3
          [] t = "pattern" -> 4]

C13_RecordAppends ==
    \A p \in Procs :
        Done200(p) /\ StrTruthy(UserOf(p)) /\ ~proc[p].overlapped =>
            Cardinality(RedisZrangebyscore(zsets, HistKey(UserOf(p)),
                                           now - WindowHours, now))
                = proc[p].startCount + 1

\* C14: when the rules of a request with a non-empty fromUser read the
\* store, both writes of the request have happened: the entries the velocity
\* rule counts include the one this request recorded, and the average the
\* amount rule reads exists and, no other request of the user having been in
\* flight with this one, is the value this request wrote (the amount if no
\* average was stored at arrival, else the mean of that average and the
\* amount).
C14_RulesReadOwnWrites ==
    \A p \in Procs : StrTruthy(UserOf(p)) =>
        LET u == UserOf(p)
            amount == AmountOf(p) * Scale
            written == IF proc[p].startAvg = {} THEN amount
                       ELSE (OptVal(proc[p].startAvg) + amount) \div 2
        IN  /\ proc[p].pc \in {"check_velocity", "check_amount"} =>
                 proc[p].wroteHist /\ proc[p].wroteAvg
            /\ proc[p].pc = "check_velocity" =>
                 \E e \in RedisZrangebyscore(zsets, HistKey(u),
                                             now - WindowHours, now) :
                     e.m = proc[p].req
            /\ proc[p].pc = "check_amount" =>
                 /\ RedisGet(kv, AvgKey(u)) # {}
                 /\ ~proc[p].overlapped => RedisGet(kv, AvgKey(u)) = {written}

C14_Witness ==
    \E p \in Procs :
        /\ proc[p].pc = "check_amount"
        /\ StrTruthy(UserOf(p))
        /\ ~proc[p].overlapped
        /\ proc[p].startAvg # {}
        /\ RedisGet(kv, AvgKey(UserOf(p))) # proc[p].startAvg

\* p answers 200 in this step, with or without a location alert
AnswersWithLocationAlert(p) ==
    /\ proc'[p].resp.status = 200
    /\ \E i \in DOMAIN proc'[p].alerts : proc'[p].alerts[i].type = "location"

AnswersWithoutLocationAlert(p) ==
    /\ proc'[p].resp.status = 200
    /\ \A i \in DOMAIN proc'[p].alerts : proc'[p].alerts[i].type # "location"

\* C15: a location alert is only ever given for a transaction with a non-empty
\* location, and has severity medium.  When the location rule is about to run
\* on a transaction with a location, both outcomes are possible from the same
\* state, the draw alone deciding which: alert iff the draw exceeds 0.8.
\* Without a location, or with an empty one, no draw gives an alert.
C15_LocationRule ==
    \A p \in Procs :
        LET location == Get(proc[p].req, "location", PyNone)
            scores == proc[p].pc = "check_location"
                      /\ ("timestamp" \in DOMAIN proc[p].req
                             => IsoParses(proc[p].req["timestamp"]))
        IN  /\ Done200(p) =>
                 \A a \in AlertsOf(p, "location") :
                     StrTruthy(location) /\ a.severity = "medium"
            /\ scores /\ StrTruthy(location) =>
                 /\ ENABLED (FinishAnalysis(p, TRUE) /\ AnswersWithLocationAlert(p))
                 /\ ENABLED (FinishAnalysis(p, FALSE) /\ AnswersWithoutLocationAlert(p))
                 /\ ~ENABLED (FinishAnalysis(p, TRUE) /\ AnswersWithoutLocationAlert(p))
                 /\ ~ENABLED (FinishAnalysis(p, FALSE) /\ AnswersWithLocationAlert(p))
            /\ scores /\ ~StrTruthy(location) =>
                 /\ ENABLED (\E draw \in BOOLEAN : FinishAnalysis(p, draw))
                 /\ ~ENABLED (\E draw \in BOOLEAN :
                                FinishAnalysis(p, draw) /\ AnswersWithLocationAlert(p))

C15_Witness ==
    \E p \in Procs :
        /\ Done200(p)
        /\ Get(proc[p].req, "location", PyNone) = "Lagos"
        /\ AlertsOf(p, "location") # {}
        /\ \A a \in AlertsOf(p, "location") : a.severity = "medium"

\* the amount rule of p runs in this step and gives an alert
AmountRuleAlerts(p) ==
    /\ proc[p].pc = "check_amount"
    /\ proc'[p].pc = "check_location"
    /\ Len(proc'[p].alerts) > Len(proc[p].alerts)

FailsOnStore(p) ==
    /\ proc[p].pc \in StoreCallPcs
    /\ proc'[p].pc = "done"
    /\ proc'[p].resp.status = 500

\* C17: a request that fails on a store call is answered 500 with the store
\* left as it is: the history entry it has written stays in the user's
\* history, inside the velocity window and in the count GET /risk-score
\* reads, and the average it has written stays stored.
C17_NoRollback ==
    [][\A p \in Procs : FailsOnStore(p) =>
        LET u == UserOf(p)
        IN  /\ zsets' = zsets
            /\ kv' = kv
            /\ proc[p].wroteHist =>
                 /\ \E e \in RedisZrangebyscore(zsets', HistKey(u),
                                                 now' - WindowHours, now') :
                       e.m = proc[p].req
                 /\ RedisZcard(zsets', HistKey(u)) >= 1
            /\ proc[p].wroteAvg => RedisGet(kv', AvgKey(u)) # {}]_vars

C17_Witness ==
    \E p \in Procs :
        /\ proc[p].pc = "done"
        /\ proc[p].resp.status = 500
        /\ proc[p].wroteHist /\ proc[p].wroteAvg
        /\ \E e \in RedisZrangebyscore(zsets, HistKey(UserOf(p)),
                                        now - WindowHours, now) :
              e.m = proc[p].req
        /\ RedisGet(kv, AvgKey(UserOf(p))) # {}

\* store and store' agree on every key outside keys: the same keys exist,
\* with the same contents and the same expiry
SameOutside(store, keys) ==
    /\ DOMAIN store' \ keys = DOMAIN store \ keys
    /\ \A k \in DOMAIN store \ keys : store'[k] = store[k]

\* C18: GET /health and GET /risk-score/<user_id> leave the store as it is,
\* and GET /health answers {status: 'OK', service: 'fraud-detection'} in
\* every state; a step of a POST /analyze request of user u changes at most
\* the history and the average of u, every other key keeping its contents
\* and its expiry, and a request without a fromUser changes nothing.
C18_Frame ==
    /\ [](reply.endpoint = "health" =>
            reply = [endpoint |-> "health", status |-> 200,
                     body |-> [status |-> "OK", service |-> "fraud-detection"]])
    /\ [](ENABLED HealthCheck)
    /\ [][/\ proc' = proc /\ now' = now => zsets' = zsets /\ kv' = kv
          /\ \A p \in Procs : proc'[p] # proc[p] =>
                LET u == Get(proc'[p].req, "fromUser", PyNone)
                IN  IF StrTruthy(u)
                    THEN /\ SameOutside(zsets, {HistKey(u)})
                         /\ SameOutside(kv, {AvgKey(u)})
                    ELSE zsets' = zsets /\ kv' = kv]_vars

C18_Witness ==
    \E p \in Procs :
        /\ UserOf(p) = "alice"
        /\ proc[p].wroteHist /\ proc[p].wroteAvg
        /\ HistKey("None") \in DOMAIN zsets
        /\ AvgKey("None") \in DOMAIN kv
        /\ reply.endpoint = "risk-score"
        /\ reply.status = 200
        /\ reply.user_id = "None"

====
